---- MODULE Spec2Model ----
(***************************************************************************)
(* Model of cmd/minimal/main.go: the lifecycle function run(), the         *)
(* shutdown coordinator returned by shutdown(), the hello handler, and the *)
(* TestShutdown harness of the same file that drives the coordinator with  *)
(* a mockServer.                                                           *)
(*                                                                         *)
(* Two programs are modelled over one set of variables:                    *)
(*   SpecRun      - one call of run(ctx, getenv) (lines 78-114);           *)
(*   SpecShutdown - one subtest of TestShutdown (lines 157-184), i.e. the  *)
(*                  task returned by shutdown() started with a trailing    *)
(*                  call, a cancel() and one receive on errChan.           *)
(* Strings that the code inspects (addresses, names, bodies) are sequences *)
(* of one-rune strings (a rune without a TLA+ escape is written as its     *)
(* code point, "U+00A0").  Durations are whole seconds.                    *)
(***************************************************************************)
EXTENDS Integers, Sequences, FiniteSets, TLC

VARIABLES
    pcRun,      \* position of run(): start, getenv, configure, go, listen, serve, check, recv, done, na
    pcTest,     \* position of the TestShutdown subtest goroutine: go, cancel, recv, done, na
    pcCoord,    \* position of the goroutine started by the go statement
    parentDone, \* the context handed to run() has been cancelled by the caller
    ctxDone,    \* the lifecycle context (the one handed to shutdown()) is cancelled
    envAddr,    \* what getenv(envVarAddress) returns
    srv,        \* the http.Server built by run()
    mockReturns,\* mockServer.Returns
    graceArg,   \* the gracePeriod parameter shutdown() was called with (0: not called)
    chanClosed, \* errChan has been closed
    sendCount,  \* number of values sent on errChan
    recvCount,  \* number of receives completed on errChan by its consumer
    recvVal,    \* what the consumer's receive yielded
    serveErr,   \* what srv.ListenAndServe() returned
    drainErr,   \* the coordinator's local err: what Shutdown returned
    runErr,     \* what run() returned
    trace,      \* the calls made on the httpServer and the events on errChan, in order
    now,        \* the clock, in seconds
    deadline,   \* the deadline of shutdownCtx (-1: not created)
    lastName,   \* the path value of the last request served
    lastResp,   \* the response written for it
    callerCancels \* number of calls of the cancel function of the context handed to run()

vars == <<pcRun, pcTest, pcCoord, parentDone, ctxDone, envAddr, srv, mockReturns,
          graceArg, chanClosed, sendCount, recvCount, recvVal, serveErr, drainErr,
          runErr, trace, now, deadline, lastName, lastResp, callerCancels>>

(***************************************************************************)
(* Bounds of the model.                                                    *)
(***************************************************************************)
MaxAddrLen == 2
MaxNameLen == 2
MaxTime == 3
MaxCallerCancels == 2

RECURSIVE SeqsUpTo(_, _)
SeqsUpTo(S, n) ==
    IF n = 0 THEN {<<>>}
    ELSE LET shorter == SeqsUpTo(S, n - 1)
         IN  shorter \cup {Append(s, c) : s \in {t \in shorter : Len(t) = n - 1}, c \in S}

\* characters an ADDRESS value is built from: four kinds of white space (space, tab,
\* form feed, no-break space) and two others
AddrChars == {" ", "\t", "\f", "U+00A0", ":", "4"}
AddrValues == SeqsUpTo(AddrChars, MaxAddrLen)

\* characters of a path value, among them ones an escaping writer would change
NameChars == {"A", "<", "%"}
Names == SeqsUpTo(NameChars, MaxNameLen) \ {<<>>}

(***************************************************************************)
(* Error values.                                                           *)
(***************************************************************************)
Nil == "nil"
ErrServerClosed == "http: Server closed"
ErrDeadlineExceeded == "context deadline exceeded"
ErrBind == "listen tcp: address already in use"
ErrAccept == "accept tcp: use of closed network connection"
NotReturned == "not returned"

(***************************************************************************)
(* Program constants (main.go:53-75, 104).                                 *)
(***************************************************************************)
contentTypeTextPlain == "text/plain; charset=utf-8"
httpReadTimeout == 10
httpWriteTimeout == 10
httpMaxHeaderBytes == 1048576
defaultHostPort == <<":", "4", "0", "0", "0">>
gracePeriod == 29
RunGraceArgument == 30
TestGraceArgument == 1
StatusOK == 200

(***************************************************************************)
(* Pure functions.                                                         *)
(***************************************************************************)
\* unicode.IsSpace, which strings.TrimSpace uses (main.go:86): the Latin-1 spaces
\* '\t', '\n', '\v', '\f', '\r', ' ', U+0085, U+00A0 and the runes of the Unicode
\* White_Space property.  A rune without a TLA+ escape is written as its code point.
IsSpace(c) ==
    c \in {" ", "\t", "\n", "\f", "\r", "U+000B", "U+0085", "U+00A0",
           "U+1680", "U+2000", "U+2001", "U+2002", "U+2003", "U+2004", "U+2005",
           "U+2006", "U+2007", "U+2008", "U+2009", "U+200A", "U+2028", "U+2029",
           "U+202F", "U+205F", "U+3000"}

\* strings.TrimSpace: drop leading and trailing white space (main.go:86)
RECURSIVE TrimLeft(_)
TrimLeft(s) == IF s # <<>> /\ IsSpace(Head(s)) THEN TrimLeft(Tail(s)) ELSE s

RECURSIVE TrimRight(_)
TrimRight(s) ==
    IF s # <<>> /\ IsSpace(s[Len(s)]) THEN TrimRight(SubSeq(s, 1, Len(s) - 1)) ELSE s

TrimSpace(s) == TrimRight(TrimLeft(s))

\* variant of ResolveAddress that tests for the empty string without trimming
ResolveAddressEmptyOnly(value) == IF value = <<>> THEN defaultHostPort ELSE value

\* main.go:85-88: hostport := getenv(envVarAddress); blank falls back to the default
ResolveAddress(value) == IF TrimSpace(value) = <<>> THEN defaultHostPort ELSE value

\* variant of HelloBody whose format lacks the trailing newline
HelloBodyNoNewline(name) == <<"H", "e", "l", "l", "o", " ">> \o name

\* main.go:64: fmt.Fprintf(w, "Hello %s\n", name)
HelloBody(name) == <<"H", "e", "l", "l", "o", " ">> \o name \o <<"\n">>

\* main.go:58-66: the response the hello handler writes for a path value
handleHello(name) ==
    [status |-> StatusOK, contentType |-> contentTypeTextPlain, body |-> HelloBody(name)]

NoResp == [status |-> 0, contentType |-> "", body |-> <<>>]

\* variant of ErrorsIs that takes every error for the target
ErrorsIsAlways(err, target) == TRUE

\* errors.Is(err, target) for the unwrapped error values of the model (main.go:107)
ErrorsIs(err, target) == err = target

\* main.go:94-100: the server run() configures
NoServer ==
    [configured |-> FALSE, Addr |-> <<>>, ReadTimeout |-> 0, WriteTimeout |-> 0,
     MaxHeaderBytes |-> 0, listening |-> FALSE, inShutdown |-> FALSE, keepAlives |-> TRUE]

NewServer(hostport) ==
    [configured |-> TRUE, Addr |-> hostport, ReadTimeout |-> httpReadTimeout,
     WriteTimeout |-> httpWriteTimeout, MaxHeaderBytes |-> httpMaxHeaderBytes,
     listening |-> FALSE, inShutdown |-> FALSE, keepAlives |-> TRUE]

\* net/http: ListenAndServe answers ErrServerClosed once the server is shutting
\* down; otherwise the bind succeeds ("") or fails
ListenOutcomes(s) == IF s.inShutdown THEN {ErrServerClosed} ELSE {"", ErrBind}

\* net/http: a serving Serve ends with ErrServerClosed after Shutdown or Close,
\* and with the accept error when the listener fails on its own
ServeOutcomes(s) == IF s.inShutdown THEN {ErrServerClosed} ELSE {ErrAccept}

(***************************************************************************)
(* The go statements.  `go f(args)` evaluates f and args in the calling    *)
(* goroutine and runs the call f(args) in the new one.  In run() the call  *)
(* is shutdown(...) itself (main.go:104), so the new goroutine builds the  *)
(* closure and ends; in TestShutdown the call is the closure               *)
(* shutdown(...)() (main.go:164, 178).                                     *)
(***************************************************************************)
TestGoTarget == "closure"

\* variant of RunGoTarget with the trailing call of the tests
RunGoTargetClosure == "closure"

\* main.go:104: the call of the go statement in run() is shutdown(...) itself
RunGoTarget == "shutdown"

GoroutineEntry(target) == IF target = "closure" THEN "wait" ELSE "factory"

(***************************************************************************)
(* The coordinator's control flow, main.go:36-50.                          *)
(***************************************************************************)
\* variant of CoordAfterDrain that sends whatever Shutdown returned, nil included
CoordAfterDrainAlwaysSend(err) == "send"

\* lines 45-49: send only a non-nil err, then close
CoordAfterDrain(err) == IF err # Nil THEN "send" ELSE "close"

\* variant of CoordSuccessor that calls Shutdown before SetKeepAlivesEnabled
CoordSuccessorDrainFirst(pc, err) ==
    CASE pc = "wait"     -> "timeout"
      [] pc = "timeout"  -> "shutdown"
      [] pc = "shutdown" -> "setKA"
      [] pc = "setKA"    -> CoordAfterDrain(err)
      [] pc = "send"     -> "close"
      [] pc = "close"    -> "deferred"
      [] pc = "deferred" -> "done"

\* variant of CoordSuccessor that closes errChan only when nothing was sent
CoordSuccessorCloseInElse(pc, err) ==
    CASE pc = "wait"     -> "timeout"
      [] pc = "timeout"  -> "setKA"
      [] pc = "setKA"    -> "shutdown"
      [] pc = "shutdown" -> CoordAfterDrain(err)
      [] pc = "send"     -> "deferred"
      [] pc = "close"    -> "deferred"
      [] pc = "deferred" -> "done"

\* variant of CoordSuccessor that closes errChan again, in the deferred part
CoordSuccessorCloseAgain(pc, err) ==
    CASE pc = "wait"     -> "timeout"
      [] pc = "timeout"  -> "setKA"
      [] pc = "setKA"    -> "shutdown"
      [] pc = "shutdown" -> CoordAfterDrain(err)
      [] pc = "send"     -> "close"
      [] pc = "close"    -> "close"
      [] pc = "deferred" -> "done"

\* lines 38-50 in program order
CoordSuccessor(pc, err) ==
    CASE pc = "wait"     -> "timeout"
      [] pc = "timeout"  -> "setKA"
      [] pc = "setKA"    -> "shutdown"
      [] pc = "shutdown" -> CoordAfterDrain(err)
      [] pc = "send"     -> "close"
      [] pc = "close"    -> "deferred"
      [] pc = "deferred" -> "done"

\* variant of SentValue that drops the error
SentValueNil(err) == Nil

\* main.go:47: the value placed on errChan
SentValue(err) == err

\* mockServer.Shutdown (main.go:154)
MockShutdown(returns) == returns

EvKeepAlivesOff == "SetKeepAlivesEnabled(false)"
EvShutdown == "Shutdown"
EvSend == "send"
EvClose == "close"

(***************************************************************************)
(* run(), main.go:78-114.                                                  *)
(***************************************************************************)
\* line 81: signal.NotifyContext derives the lifecycle context from the caller's
RunNotifyContext ==
    /\ pcRun = "start"
    /\ pcRun' = "getenv"
    /\ ctxDone' = parentDone
    /\ UNCHANGED <<callerCancels, pcTest, pcCoord, parentDone, envAddr, srv, mockReturns, graceArg,
                   chanClosed, sendCount, recvCount, recvVal, serveErr, drainErr,
                   runErr, trace, now, deadline, lastName, lastResp>>

\* lines 85-100: resolve the address, build the mux and the server
RunConfigure ==
    /\ pcRun = "getenv"
    /\ pcRun' = "go"
    /\ srv' = NewServer(ResolveAddress(envAddr))
    /\ UNCHANGED <<callerCancels, pcTest, pcCoord, parentDone, ctxDone, envAddr, mockReturns, graceArg,
                   chanClosed, sendCount, recvCount, recvVal, serveErr, drainErr,
                   runErr, trace, now, deadline, lastName, lastResp>>

\* lines 103-104: errChan := make(chan error); go shutdown(ctx, srv, errChan, 30*time.Second)
RunGoShutdown ==
    /\ pcRun = "go"
    /\ pcRun' = "listen"
    /\ pcCoord' = GoroutineEntry(RunGoTarget)
    /\ graceArg' = RunGraceArgument
    /\ UNCHANGED <<callerCancels, pcTest, parentDone, ctxDone, envAddr, srv, mockReturns,
                   chanClosed, sendCount, recvCount, recvVal, serveErr, drainErr,
                   runErr, trace, now, deadline, lastName, lastResp>>

\* lines 35-36, 51: a goroutine whose call is shutdown(...) builds the closure,
\* returns it to nobody and ends
CoordFactoryReturn ==
    /\ pcCoord = "factory"
    /\ pcCoord' = "exited"
    /\ UNCHANGED <<callerCancels, pcRun, pcTest, parentDone, ctxDone, envAddr, srv, mockReturns, graceArg,
                   chanClosed, sendCount, recvCount, recvVal, serveErr, drainErr,
                   runErr, trace, now, deadline, lastName, lastResp>>

\* line 107: srv.ListenAndServe() binds the address, or fails to
RunListenAndServe ==
    /\ pcRun = "listen"
    /\ \E outcome \in ListenOutcomes(srv) :
          IF outcome = ""
          THEN /\ srv' = [srv EXCEPT !.listening = TRUE]
               /\ pcRun' = "serve"
               /\ UNCHANGED serveErr
          ELSE /\ serveErr' = outcome
               /\ pcRun' = "check"
               /\ UNCHANGED srv
    /\ UNCHANGED <<callerCancels, pcTest, pcCoord, parentDone, ctxDone, envAddr, mockReturns, graceArg,
                   chanClosed, sendCount, recvCount, recvVal, drainErr,
                   runErr, trace, now, deadline, lastName, lastResp>>

\* line 92, 58-66: the listener dispatches GET /hello/{name} to the hello handler
HandleRequest ==
    /\ pcRun = "serve"
    /\ srv.listening
    /\ \E name \in Names :
          /\ lastName' = name
          /\ lastResp' = handleHello(name)
    /\ UNCHANGED <<callerCancels, pcRun, pcTest, pcCoord, parentDone, ctxDone, envAddr, srv, mockReturns,
                   graceArg, chanClosed, sendCount, recvCount, recvVal, serveErr, drainErr,
                   runErr, trace, now, deadline>>

\* line 107: the blocking serve call returns
ServeReturn ==
    /\ pcRun = "serve"
    /\ \E outcome \in ServeOutcomes(srv) : serveErr' = outcome
    /\ srv' = [srv EXCEPT !.listening = FALSE]
    /\ pcRun' = "check"
    /\ UNCHANGED <<callerCancels, pcTest, pcCoord, parentDone, ctxDone, envAddr, mockReturns, graceArg,
                   chanClosed, sendCount, recvCount, recvVal, drainErr,
                   runErr, trace, now, deadline, lastName, lastResp>>

\* variant of RunCheck that drops the listener's error and reports success
RunCheckSwallowsError ==
    /\ pcRun = "check"
    /\ IF ~ErrorsIs(serveErr, ErrServerClosed)
       THEN /\ runErr' = Nil
            /\ pcRun' = "done"
            /\ ctxDone' = TRUE
       ELSE /\ pcRun' = "recv"
            /\ UNCHANGED <<runErr, ctxDone>>
    /\ UNCHANGED <<callerCancels, pcTest, pcCoord, parentDone, envAddr, srv, mockReturns, graceArg,
                   chanClosed, sendCount, recvCount, recvVal, serveErr, drainErr,
                   trace, now, deadline, lastName, lastResp>>

\* lines 107-109, 82: anything but the sentinel is returned at once; the deferred
\* cancel() releases the lifecycle context
RunCheck ==
    /\ pcRun = "check"
    /\ IF ~ErrorsIs(serveErr, ErrServerClosed)
       THEN /\ runErr' = serveErr
            /\ pcRun' = "done"
            /\ ctxDone' = TRUE
       ELSE /\ pcRun' = "recv"
            /\ UNCHANGED <<runErr, ctxDone>>
    /\ UNCHANGED <<callerCancels, pcTest, pcCoord, parentDone, envAddr, srv, mockReturns, graceArg,
                   chanClosed, sendCount, recvCount, recvVal, serveErr, drainErr,
                   trace, now, deadline, lastName, lastResp>>

\* lines 111-113, 82: err := <-errChan on a closed channel yields nil; return err
RunRecvClosed ==
    /\ pcRun = "recv"
    /\ chanClosed
    /\ recvVal' = Nil
    /\ recvCount' = recvCount + 1
    /\ runErr' = Nil
    /\ pcRun' = "done"
    /\ ctxDone' = TRUE
    /\ UNCHANGED <<callerCancels, pcTest, pcCoord, parentDone, envAddr, srv, mockReturns, graceArg,
                   chanClosed, sendCount, serveErr, drainErr,
                   trace, now, deadline, lastName, lastResp>>

\* line 81: SIGINT or SIGTERM arrives while the handlers are registered
Signal ==
    /\ pcRun \notin {"start", "done", "na"}
    /\ ~ctxDone
    /\ ctxDone' = TRUE
    /\ UNCHANGED <<callerCancels, pcRun, pcTest, pcCoord, parentDone, envAddr, srv, mockReturns, graceArg,
                   chanClosed, sendCount, recvCount, recvVal, serveErr, drainErr,
                   runErr, trace, now, deadline, lastName, lastResp>>

\* lines 309-310, 337: the caller cancels the context it handed to run(); TestRun
\* calls the same cancel function at line 337 and again from t.Cleanup
CallerCancel ==
    /\ pcRun # "na"
    /\ callerCancels < MaxCallerCancels
    /\ callerCancels' = callerCancels + 1
    /\ parentDone' = TRUE
    /\ ctxDone' = IF pcRun = "start" THEN ctxDone ELSE TRUE
    /\ UNCHANGED <<pcRun, pcTest, pcCoord, envAddr, srv, mockReturns, graceArg,
                   chanClosed, sendCount, recvCount, recvVal, serveErr, drainErr,
                   runErr, trace, now, deadline, lastName, lastResp>>

(***************************************************************************)
(* The task returned by shutdown(), main.go:36-50.                         *)
(***************************************************************************)
\* variant of CoordWait that does not wait for the cancellation
CoordWaitNoBlock ==
    /\ pcCoord = "wait"
    /\ pcCoord' = CoordSuccessor("wait", drainErr)
    /\ UNCHANGED <<callerCancels, pcRun, pcTest, parentDone, ctxDone, envAddr, srv, mockReturns, graceArg,
                   chanClosed, sendCount, recvCount, recvVal, serveErr, drainErr,
                   runErr, trace, now, deadline, lastName, lastResp>>

\* line 38: <-ctx.Done()
CoordWait ==
    /\ pcCoord = "wait"
    /\ ctxDone
    /\ pcCoord' = CoordSuccessor("wait", drainErr)
    /\ UNCHANGED <<callerCancels, pcRun, pcTest, parentDone, ctxDone, envAddr, srv, mockReturns, graceArg,
                   chanClosed, sendCount, recvCount, recvVal, serveErr, drainErr,
                   runErr, trace, now, deadline, lastName, lastResp>>

\* variant of CoordWithTimeout that counts the grace period from the start of the process
CoordWithTimeoutFromStart ==
    /\ pcCoord = "timeout"
    /\ deadline' = graceArg
    /\ pcCoord' = CoordSuccessor("timeout", drainErr)
    /\ UNCHANGED <<callerCancels, pcRun, pcTest, parentDone, ctxDone, envAddr, srv, mockReturns, graceArg,
                   chanClosed, sendCount, recvCount, recvVal, serveErr, drainErr,
                   runErr, trace, now, lastName, lastResp>>

\* line 40: context.WithTimeout(context.Background(), gracePeriod)
CoordWithTimeout ==
    /\ pcCoord = "timeout"
    /\ deadline' = now + graceArg
    /\ pcCoord' = CoordSuccessor("timeout", drainErr)
    /\ UNCHANGED <<callerCancels, pcRun, pcTest, parentDone, ctxDone, envAddr, srv, mockReturns, graceArg,
                   chanClosed, sendCount, recvCount, recvVal, serveErr, drainErr,
                   runErr, trace, now, lastName, lastResp>>

\* lines 43, 153: httpServer.SetKeepAlivesEnabled(false), a no-op of the mockServer
CoordSetKeepAlives ==
    /\ pcCoord = "setKA"
    /\ trace' = Append(trace, EvKeepAlivesOff)
    /\ pcCoord' = CoordSuccessor("setKA", drainErr)
    /\ UNCHANGED <<callerCancels, pcRun, pcTest, parentDone, ctxDone, envAddr, srv, mockReturns, graceArg,
                   chanClosed, sendCount, recvCount, recvVal, serveErr, drainErr,
                   runErr, now, deadline, lastName, lastResp>>

\* lines 45, 154: err := httpServer.Shutdown(shutdownCtx)
CoordShutdown ==
    /\ pcCoord = "shutdown"
    /\ drainErr' = MockShutdown(mockReturns)
    /\ trace' = Append(trace, EvShutdown)
    /\ pcCoord' = CoordSuccessor("shutdown", drainErr')
    /\ UNCHANGED <<callerCancels, pcRun, pcTest, parentDone, ctxDone, envAddr, srv, mockReturns, graceArg,
                   chanClosed, sendCount, recvCount, recvVal, serveErr,
                   runErr, now, deadline, lastName, lastResp>>

\* lines 47, 166, 180: errChan <- err meets the subtest's receive (errChan is unbuffered)
CoordSend ==
    /\ pcCoord = "send"
    /\ pcTest = "recv"
    /\ ~chanClosed
    /\ recvVal' = SentValue(drainErr)
    /\ sendCount' = sendCount + 1
    /\ recvCount' = recvCount + 1
    /\ trace' = Append(trace, EvSend)
    /\ pcTest' = "done"
    /\ pcCoord' = CoordSuccessor("send", drainErr)
    /\ UNCHANGED <<callerCancels, pcRun, parentDone, ctxDone, envAddr, srv, mockReturns, graceArg,
                   chanClosed, serveErr, drainErr,
                   runErr, now, deadline, lastName, lastResp>>

\* line 49: close(errChan)
CoordClose ==
    /\ pcCoord = "close"
    /\ chanClosed' = TRUE
    /\ trace' = Append(trace, EvClose)
    /\ pcCoord' = CoordSuccessor("close", drainErr)
    /\ UNCHANGED <<callerCancels, pcRun, pcTest, parentDone, ctxDone, envAddr, srv, mockReturns, graceArg,
                   sendCount, recvCount, recvVal, serveErr, drainErr,
                   runErr, now, deadline, lastName, lastResp>>

\* line 41: the deferred cancel() of shutdownCtx; the task ends
CoordDeferredCancel ==
    /\ pcCoord = "deferred"
    /\ pcCoord' = CoordSuccessor("deferred", drainErr)
    /\ UNCHANGED <<callerCancels, pcRun, pcTest, parentDone, ctxDone, envAddr, srv, mockReturns, graceArg,
                   chanClosed, sendCount, recvCount, recvVal, serveErr, drainErr,
                   runErr, trace, now, deadline, lastName, lastResp>>

(***************************************************************************)
(* One subtest of TestShutdown, main.go:159-169 and 173-183.               *)
(***************************************************************************)
\* lines 164, 178: go shutdown(ctx, m, errChan, time.Second)()
TestGo ==
    /\ pcTest = "go"
    /\ pcTest' = "cancel"
    /\ pcCoord' = GoroutineEntry(TestGoTarget)
    /\ graceArg' = TestGraceArgument
    /\ UNCHANGED <<callerCancels, pcRun, parentDone, ctxDone, envAddr, srv, mockReturns,
                   chanClosed, sendCount, recvCount, recvVal, serveErr, drainErr,
                   runErr, trace, now, deadline, lastName, lastResp>>

\* lines 165, 179: cancel()
TestCancel ==
    /\ pcTest = "cancel"
    /\ pcTest' = "recv"
    /\ ctxDone' = TRUE
    /\ UNCHANGED <<callerCancels, pcRun, pcCoord, parentDone, envAddr, srv, mockReturns, graceArg,
                   chanClosed, sendCount, recvCount, recvVal, serveErr, drainErr,
                   runErr, trace, now, deadline, lastName, lastResp>>

\* lines 166, 180: err := <-errChan on the closed channel yields nil
TestRecvClosed ==
    /\ pcTest = "recv"
    /\ chanClosed
    /\ recvVal' = Nil
    /\ recvCount' = recvCount + 1
    /\ pcTest' = "done"
    /\ UNCHANGED <<callerCancels, pcRun, pcCoord, parentDone, ctxDone, envAddr, srv, mockReturns, graceArg,
                   chanClosed, sendCount, serveErr, drainErr,
                   runErr, trace, now, deadline, lastName, lastResp>>

\* the clock advances
Tick ==
    /\ now < MaxTime
    /\ now' = now + 1
    /\ UNCHANGED <<callerCancels, pcRun, pcTest, pcCoord, parentDone, ctxDone, envAddr, srv, mockReturns,
                   graceArg, chanClosed, sendCount, recvCount, recvVal, serveErr, drainErr,
                   runErr, trace, deadline, lastName, lastResp>>

(***************************************************************************)
(* Specifications.                                                         *)
(***************************************************************************)
MockErrors == {Nil, ErrServerClosed, ErrDeadlineExceeded}

InitCommon ==
    /\ pcCoord = "none"
    /\ parentDone = FALSE
    /\ ctxDone = FALSE
    /\ srv = NoServer
    /\ graceArg = 0
    /\ chanClosed = FALSE
    /\ sendCount = 0
    /\ recvCount = 0
    /\ recvVal = NotReturned
    /\ serveErr = NotReturned
    /\ drainErr = Nil
    /\ runErr = NotReturned
    /\ trace = <<>>
    /\ now = 0
    /\ deadline = -1
    /\ lastName = <<>>
    /\ lastResp = NoResp
    /\ callerCancels = 0

\* run(ctx, getenv) is about to be called
InitRun ==
    /\ InitCommon
    /\ pcRun = "start"
    /\ pcTest = "na"
    /\ envAddr \in AddrValues
    /\ mockReturns = Nil

\* The steps of one call of run().  The receive of line 111 (RunRecvClosed, and a
\* rendezvous with a send of the coordinator) is not among them: the goroutine
\* started at line 104 ends in CoordFactoryReturn without running the closure, so
\* nothing calls srv.Shutdown, ServeOutcomes never holds the sentinel and run()
\* never gets to "recv".
NextRun ==
    \/ RunNotifyContext
    \/ RunConfigure
    \/ RunGoShutdown
    \/ CoordFactoryReturn
    \/ RunListenAndServe
    \/ HandleRequest
    \/ ServeReturn
    \/ RunCheck
    \/ Signal
    \/ CallerCancel

SpecRun == InitRun /\ [][NextRun]_vars

\* run()'s own steps and the goroutine it starts are scheduled; signals, caller
\* cancellation, requests and listener failures are up to the environment
FairSpecRun ==
    /\ SpecRun
    /\ WF_vars(RunNotifyContext)
    /\ WF_vars(RunConfigure)
    /\ WF_vars(RunGoShutdown)
    /\ WF_vars(CoordFactoryReturn)
    /\ WF_vars(RunListenAndServe)
    /\ WF_vars(RunCheck)

\* a subtest of TestShutdown has built ctx, errChan and the mockServer
InitShutdown ==
    /\ InitCommon
    /\ pcRun = "na"
    /\ pcTest = "go"
    /\ envAddr = <<>>
    /\ mockReturns \in MockErrors

NextShutdown ==
    \/ TestGo
    \/ TestCancel
    \/ TestRecvClosed
    \/ CoordWait
    \/ CoordWithTimeout
    \/ CoordSetKeepAlives
    \/ CoordShutdown
    \/ CoordSend
    \/ CoordClose
    \/ CoordDeferredCancel
    \/ Tick

SpecShutdown == InitShutdown /\ [][NextShutdown]_vars

\* both goroutines of the subtest are scheduled; the clock is not forced to advance
FairSpecShutdown ==
    /\ SpecShutdown
    /\ WF_vars(TestGo \/ TestCancel \/ TestRecvClosed)
    /\ WF_vars(CoordWait \/ CoordWithTimeout \/ CoordSetKeepAlives \/ CoordShutdown
                 \/ CoordSend \/ CoordClose \/ CoordDeferredCancel)

(***************************************************************************)
(* Properties.                                                             *)
(***************************************************************************)
\* number of occurrences of an event in the trace
Count(ev) == Cardinality({i \in 1..Len(trace) : trace[i] = ev})

\* index of the first occurrence of an event in the trace, 0 when there is none
First(ev) ==
    IF Count(ev) = 0 THEN 0
    ELSE CHOOSE i \in 1..Len(trace) :
            /\ trace[i] = ev
            /\ \A j \in 1..(i - 1) : trace[j] # ev

\* the listener ended on its own, with something other than the sentinel
ServeFailed == serveErr \notin {NotReturned, ErrServerClosed}

\* C1: when the lifecycle context is cancelled while the listener serves and the
\* drain does not fail, run() eventually returns nil and the listener no longer
\* accepts (executions where the listener fails on its own or the drain reports
\* an error are outside the claim).
C1_CancelWhileServingReturnsSuccess ==
    (ctxDone /\ pcRun = "serve")
        ~> \/ pcRun = "done" /\ runErr = Nil /\ ~srv.listening
           \/ drainErr # Nil
           \/ ServeFailed

\* C2: a cancellation of the lifecycle context during serving leads to exactly one
\* SetKeepAlivesEnabled(false) followed by exactly one Shutdown on the listener,
\* there is never more than one of either, and serve is not entered again once it
\* has returned.
C2_CancelDrainsExactlyOnce ==
    /\ [](Count(EvKeepAlivesOff) <= 1 /\ Count(EvShutdown) <= 1)
    /\ [][(pcRun \in {"check", "recv", "done"}) => (pcRun' # "serve")]_vars
    /\ (ctxDone /\ pcRun = "serve")
          ~> /\ Count(EvKeepAlivesOff) = 1
             /\ Count(EvShutdown) = 1
             /\ First(EvKeepAlivesOff) < First(EvShutdown)

\* C4: when the serve call returns anything but the sentinel, run() returns exactly
\* that error as its next step, without a receive on errChan.
C4_ServeFailureReturnedAtOnce ==
    (ServeFailed /\ pcRun # "check")
        => /\ pcRun = "done"
           /\ runErr = serveErr
           /\ recvCount = 0

\* run() has returned a bind failure while the goroutine it started had not even run
C4_Witness ==
    /\ pcRun = "done"
    /\ runErr = ErrBind
    /\ recvCount = 0
    /\ pcCoord = "factory"

\* C5: when Shutdown returns no error, the task sends nothing on errChan, closes it,
\* and the reader's one receive yields nil.
C5_DrainSuccessClosesWithoutValue ==
    mockReturns = Nil
        => /\ sendCount = 0
           /\ EvSend \notin {trace[i] : i \in 1..Len(trace)}
           /\ (pcCoord \in {"deferred", "done"} => chanClosed)
           /\ (pcTest = "done" => recvVal = Nil /\ recvCount = 1 /\ chanClosed)

\* the drain returned nil, the task has ended and the reader has its nil
C5_Witness ==
    /\ mockReturns = Nil
    /\ Count(EvShutdown) = 1
    /\ pcCoord = "done"
    /\ chanClosed
    /\ pcTest = "done"
    /\ recvVal = Nil
    /\ recvCount = 1

\* C6: when Shutdown returns an error e, the reader's one receive yields exactly e,
\* at most one value is ever sent, and errChan is closed only after that send.
C6_DrainFailureYieldsErrorOnce ==
    mockReturns # Nil
        => /\ sendCount <= 1
           /\ Count(EvSend) = sendCount
           /\ (pcTest = "done" => recvVal = mockReturns /\ recvCount = 1 /\ sendCount = 1)
           /\ (chanClosed => sendCount = 1 /\ First(EvSend) < First(EvClose))
           /\ (pcCoord \in {"deferred", "done"} => chanClosed)

\* the drain exceeded its deadline; the reader got that error and the channel is closed
C6_Witness ==
    /\ mockReturns = ErrDeadlineExceeded
    /\ pcTest = "done"
    /\ recvVal = ErrDeadlineExceeded
    /\ recvCount = 1
    /\ chanClosed
    /\ pcCoord = "done"

\* C7: the grace period run() hands to shutdown() is the named gracePeriod constant.
C7_GraceArgumentIsGracePeriod ==
    (pcRun # "na" /\ graceArg # 0) => graceArg = gracePeriod

\* C8: the server's address is the value of ADDRESS, or the default when that value
\* is empty or made of white space only.
C8_ListenAddress ==
    srv.configured
        => srv.Addr = IF \A i \in 1..Len(envAddr) :
                            envAddr[i] \in {" ", "\t", "\n", "\f", "\r", "U+000B",
                                            "U+0085", "U+00A0", "U+1680", "U+2000",
                                            "U+2001", "U+2002", "U+2003", "U+2004",
                                            "U+2005", "U+2006", "U+2007", "U+2008",
                                            "U+2009", "U+200A", "U+2028", "U+2029",
                                            "U+202F", "U+205F", "U+3000"}
                      THEN <<":", "4", "0", "0", "0">>
                      ELSE envAddr

\* ADDRESS is a form feed and a no-break space, and the server got the default
C8_Witness ==
    /\ srv.configured
    /\ envAddr = <<"\f", "U+00A0">>
    /\ srv.Addr = <<":", "4", "0", "0", "0">>

\* C9: the response to a request with path value name is status 200, the plain text
\* content type, and the body "Hello " name "\n" with the name unchanged, whatever
\* the rest of the state.
C9_HelloResponse ==
    lastName # <<>>
        => /\ lastResp.status = 200
           /\ lastResp.contentType = "text/plain; charset=utf-8"
           /\ Len(lastResp.body) = Len(lastName) + 7
           /\ SubSeq(lastResp.body, 1, 6) = <<"H", "e", "l", "l", "o", " ">>
           /\ SubSeq(lastResp.body, 7, Len(lastResp.body) - 1) = lastName
           /\ lastResp.body[Len(lastResp.body)] = "\n"

\* a name an escaping writer would alter was answered verbatim
C9_Witness ==
    /\ lastName = <<"<", "%">>
    /\ lastResp.status = 200
    /\ lastResp.body = <<"H", "e", "l", "l", "o", " ", "<", "%", "\n">>

\* C10: the coordinator's calls and channel events occur in the order
\* SetKeepAlivesEnabled(false), Shutdown, send (if any), close.
C10_CoordinatorOrder ==
    /\ Count(EvShutdown) > 0
          => First(EvKeepAlivesOff) # 0 /\ First(EvKeepAlivesOff) < First(EvShutdown)
    /\ Count(EvSend) > 0
          => First(EvShutdown) # 0 /\ First(EvShutdown) < First(EvSend)
    /\ Count(EvClose) > 0
          => /\ First(EvShutdown) # 0 /\ First(EvShutdown) < First(EvClose)
             /\ (drainErr # Nil => First(EvSend) # 0)
             /\ \A i \in 1..Len(trace) : trace[i] = EvSend => i < First(EvClose)

\* all four steps happened, in that order
C10_Witness ==
    trace = <<EvKeepAlivesOff, EvShutdown, EvSend, EvClose>>

\* C11: while the lifecycle context is not cancelled the coordinator has made no
\* call on the listener and has neither sent on nor closed errChan.
C11_NothingBeforeCancel ==
    ~ctxDone
        => /\ trace = <<>>
           /\ sendCount = 0
           /\ ~chanClosed
           /\ deadline = -1
           /\ pcCoord \in {"none", "wait", "factory", "exited"}

\* the task is started and time has passed, but no cancellation yet: it is suspended
C11_Witness ==
    /\ ~ctxDone
    /\ pcCoord = "wait"
    /\ now > 0
    /\ trace = <<>>

\* C12: once the drain call has returned, errChan is eventually closed, on the
\* success and on the failure path, and a consumer blocked in its receive is
\* eventually released.
C12_CloseAlwaysReached ==
    /\ (Count(EvShutdown) > 0) ~> chanClosed
    /\ (pcTest = "recv") ~> (pcTest = "done")

\* the failure path: the error was sent, the channel closed, the reader released
C12_Witness ==
    /\ mockReturns = ErrServerClosed
    /\ drainErr = ErrServerClosed
    /\ sendCount = 1
    /\ chanClosed
    /\ pcTest = "done"

\* C13: errChan is one-shot: at most one value sent, closed at most once, no send
\* after the close, at most one receive by the consumer.
C13_OneShotChannel ==
    /\ sendCount <= 1
    /\ Count(EvSend) <= 1
    /\ Count(EvClose) <= 1
    /\ chanClosed <=> Count(EvClose) = 1
    /\ \A i \in 1..Len(trace) : trace[i] = EvSend => \A j \in 1..i : trace[j] # EvClose
    /\ recvCount <= 1
    /\ pcCoord = "send" => ~chanClosed

\* one value was sent and received, and the channel was closed once after it
C13_Witness ==
    /\ sendCount = 1
    /\ recvCount = 1
    /\ Count(EvClose) = 1
    /\ First(EvSend) < First(EvClose)
    /\ pcCoord = "done"

\* positions of a goroutine that runs the closure returned by shutdown()
ClosurePositions == {"wait", "timeout", "setKA", "shutdown", "send", "close", "deferred", "done"}

\* C15: when the serve call fails with something other than the sentinel, neither
\* SetKeepAlivesEnabled(false) nor Shutdown is invoked on the listener, and after
\* run() has returned and released the lifecycle context no task is left that
\* would invoke them.
C15_ServeFailureSkipsDrain ==
    ServeFailed
        => /\ Count(EvKeepAlivesOff) = 0
           /\ Count(EvShutdown) = 0
           /\ srv.keepAlives
           /\ ~srv.inShutdown
           /\ pcCoord \notin ClosurePositions

\* run() returned the bind failure, released the context, and the goroutine is gone
C15_Witness ==
    /\ pcRun = "done"
    /\ runErr = ErrBind
    /\ ctxDone
    /\ pcCoord = "exited"
    /\ trace = <<>>

\* C18: once run() has returned, the goroutine it started terminates; it is never
\* left waiting on the lifecycle context or in a send on errChan.
C18_BackgroundTaskTerminates ==
    /\ (pcRun = "done") ~> (pcCoord = "exited")
    /\ [](pcRun = "done" => pcCoord \notin {"wait", "send"})

\* the listener failed while serving, run() returned and the goroutine has ended
C18_Witness ==
    /\ pcRun = "done"
    /\ runErr = ErrAccept
    /\ pcCoord = "exited"

\* C19: run() returns nil only when the drain was invoked exactly once and returned
\* no error after a cancellation; every other return of run() carries an error.
C19_SuccessOnlyAfterCleanDrain ==
    pcRun = "done"
        => /\ runErr # NotReturned
           /\ runErr = Nil
                 => /\ Count(EvShutdown) = 1
                    /\ drainErr = Nil
                    /\ serveErr = ErrServerClosed
           /\ (Count(EvShutdown) # 1 \/ drainErr # Nil) => runErr # Nil

\* run() ended without any drain, after a cancellation by the caller, with an error
C19_Witness ==
    /\ pcRun = "done"
    /\ parentDone
    /\ Count(EvShutdown) = 0
    /\ runErr = ErrAccept

\* the step in which the coordinator invokes Shutdown
ShutdownInvoked == pcCoord = "shutdown" /\ pcCoord' # "shutdown"

\* C16: the drain deadline is created once cancellation has been observed, lies
\* exactly gracePeriod after that moment whatever the time the process ran before,
\* and has not expired when Shutdown is invoked.
C16_DeadlineUnexpiredAtShutdown ==
    [][/\ (deadline' # deadline) => (ctxDone /\ graceArg > 0 /\ deadline' = now + graceArg)
       /\ ShutdownInvoked => (deadline # -1 /\ now < deadline)]_vars

\* C16, amended: the drain deadline is created once cancellation has been observed,
\* lies exactly gracePeriod after the moment of its creation whatever the time the
\* process ran before, is unexpired when created and is never changed afterwards,
\* and exists when Shutdown is invoked; it is not created before the cancellation.
C16_DeadlineFreshAtCreation ==
    [][/\ (deadline' # deadline)
             => /\ ctxDone
                /\ deadline = -1
                /\ graceArg > 0
                /\ deadline' = now + graceArg
                /\ now < deadline'
       /\ ShutdownInvoked => (deadline # -1 /\ deadline - graceArg <= now)
       /\ ~ctxDone => deadline = -1]_vars

\* the process ran longer than the grace period before the cancellation, and the
\* deadline handed to Shutdown still lay gracePeriod after its creation
C16_Witness ==
    /\ Count(EvShutdown) = 1
    /\ deadline - graceArg > graceArg
    /\ now < deadline


====
